---------------------------- MODULE Spec2Model ----------------------------
(***************************************************************************)
(* Model of text2wkt.py (Text2WKTProcessingAlgorithm).                     *)
(*                                                                         *)
(* A Python str is modelled as a sequence of one-character strings, so     *)
(* that split / strip / join / format are computed character by character  *)
(* the way the interpreter computes them.  A CSV file is modelled as the   *)
(* sequence of records csv.reader yields for it (a record is a sequence of *)
(* str), and the output file as the sequence of records handed to          *)
(* csv.writer.writerow; the delimiter and the quoting of the csv module    *)
(* are below this level.  csv.field_size_limit (line 184) and the choice   *)
(* of the output file name (line 188) change nothing the model observes.   *)
(***************************************************************************)
EXTENDS Naturals, Integers, Sequences, FiniteSets, TLC

VARIABLES
    node_string,   \* argument of WKT_linestring_from_nodes (last call)
    result,        \* value returned by WKT_linestring_from_nodes (last call)
    pc,            \* position in the code
    selector,      \* the COLUMN parameter read by processAlgorithm
    column,        \* main's parameter `column`
    column_name,   \* main's parameter `column_name`
    source,        \* the input file: is it a layer, can it be opened, its records
    line_data,     \* state of the input handle  (open(infile))
    outfile,       \* state of the output handle (open(of, 'w'))
    acquired,      \* how many times each handle was acquired
    header,        \* main's local `header`
    colindex,      \* main's local `colindex`
    nread,         \* number of data rows the reader has yielded so far
    outrow,        \* main's local `outrow` (the row about to be written)
    written,       \* records passed to writer.writerow so far
    error          \* the exception that left main, or "none"

vars == <<node_string, result, pc, selector, column, column_name, source,
          line_data, outfile, acquired, header, colindex, nread, outrow,
          written, error>>

-----------------------------------------------------------------------------
(* Bounds of the model *)

\* longest NodeString explored by the Geometry Builder specification
MaxLen == 8

\* largest number of data rows of an input file
MaxRows == 2

-----------------------------------------------------------------------------
(* Python values and str primitives *)

\* characters NodeStrings are built from
Alphabet == {"1", "2", " ", ";"}

\* characters str.strip() and str.split() treat as whitespace (the ASCII
\* ones that can be written here; Python adds \x0b, \x0c and the Unicode
\* spaces)
Whitespace == {" ", "\t", "\n", "\r"}

\* Python's None
None == [t |-> "NoneType", v |-> <<>>]

\* a Python str value
Str(s) == [t |-> "str", v |-> s]

\* str.split(sep) for a one-character sep: scan left to right, cutting at
\* every occurrence of sep; always yields at least one piece
RECURSIVE str_split_sep_from(_, _, _)
str_split_sep_from(s, sep, cur) ==
    IF s = <<>> THEN <<cur>>
    ELSE IF Head(s) = sep
         THEN <<cur>> \o str_split_sep_from(Tail(s), sep, <<>>)
         ELSE str_split_sep_from(Tail(s), sep, Append(cur, Head(s)))

str_split_sep(s, sep) == str_split_sep_from(s, sep, <<>>)

\* str.lstrip()
RECURSIVE str_lstrip(_)
str_lstrip(s) ==
    IF s # <<>> /\ Head(s) \in Whitespace THEN str_lstrip(Tail(s)) ELSE s

\* str.rstrip()
RECURSIVE str_rstrip(_)
str_rstrip(s) ==
    IF s # <<>> /\ s[Len(s)] \in Whitespace
    THEN str_rstrip(SubSeq(s, 1, Len(s) - 1))
    ELSE s

\* str.strip()
str_strip(s) == str_rstrip(str_lstrip(s))

\* str.split() with no separator: split on runs of whitespace, no empty pieces
RECURSIVE str_split_ws_from(_, _)
str_split_ws_from(s, cur) ==
    IF s = <<>> THEN (IF cur = <<>> THEN <<>> ELSE <<cur>>)
    ELSE IF Head(s) \in Whitespace
         THEN (IF cur = <<>> THEN <<>> ELSE <<cur>>)
              \o str_split_ws_from(Tail(s), <<>>)
         ELSE str_split_ws_from(Tail(s), Append(cur, Head(s)))

str_split_ws(s) == str_split_ws_from(s, <<>>)

\* sep.join(list)
RECURSIVE str_join(_, _)
str_join(sep, list) ==
    IF list = <<>> THEN <<>>
    ELSE IF Len(list) = 1 THEN list[1]
    ELSE list[1] \o sep \o str_join(sep, Tail(list))

\* the literals of WKT_linestring_from_nodes
LINESTRING == <<"L", "I", "N", "E", "S", "T", "R", "I", "N", "G">>
POINT == <<"P", "O", "I", "N", "T">>
CommaSpace == <<",", " ">>

-----------------------------------------------------------------------------
(* WKT_linestring_from_nodes *)

\* '{} {}'.format(coords[1], coords[0])
coord_pair_unswapped(coords) == coords[1] \o <<" ">> \o coords[2]
coord_pair(coords) == coords[2] \o <<" ">> \o coords[1]

\* the test of line 214
keeps_node_strict(coords) == Len(coords) > 2
keeps_node(coords) == Len(coords) >= 2

\* the loop of lines 211-217 over the nodes not yet visited
RECURSIVE coord_pair_list(_)
coord_pair_list(nodes) ==
    IF nodes = <<>> THEN <<>>
    ELSE LET coords == str_split_ws(str_strip(Head(nodes)))
         IN  (IF keeps_node(coords) THEN <<coord_pair(coords)>> ELSE <<>>)
             \o coord_pair_list(Tail(nodes))

\* line 210
WKT_type(nodes) == IF Len(nodes) > 1 THEN LINESTRING ELSE POINT

WKT_linestring_from_nodes(s) ==
    LET nodes == str_split_sep(s, ";")
    IN  IF nodes # <<>>
        THEN LET line_coord_string == str_join(CommaSpace, coord_pair_list(nodes))
             IN  Str(WKT_type(nodes) \o <<"(">> \o line_coord_string \o <<")">>)
        ELSE None

-----------------------------------------------------------------------------
(* Python primitives used by main *)

Digits == {"0", "1", "2", "3", "4", "5", "6", "7", "8", "9"}

DigitValue(c) ==
    CASE c = "0" -> 0 [] c = "1" -> 1 [] c = "2" -> 2 [] c = "3" -> 3
      [] c = "4" -> 4 [] c = "5" -> 5 [] c = "6" -> 6 [] c = "7" -> 7
      [] c = "8" -> 8 [] c = "9" -> 9

\* the value of a non-empty run of decimal digits
RECURSIVE DigitsValue(_)
DigitsValue(d) ==
    IF Len(d) = 1 THEN DigitValue(d[1])
    ELSE 10 * DigitsValue(SubSeq(d, 1, Len(d) - 1)) + DigitValue(d[Len(d)])

\* int(s) for a str: surrounding whitespace is ignored, one sign is allowed,
\* the rest must be decimal digits (digit-separating underscores are not
\* modelled); anything else raises ValueError
py_int(s) ==
    LET t      == str_strip(s)
        signed == t # <<>> /\ t[1] \in {"+", "-"}
        d      == IF signed THEN Tail(t) ELSE t
    IN  IF d # <<>> /\ \A i \in 1..Len(d) : d[i] \in Digits
        THEN [ok |-> TRUE,
              val |-> IF signed /\ t[1] = "-" THEN 0 - DigitsValue(d)
                      ELSE DigitsValue(d)]
        ELSE [ok |-> FALSE, val |-> 0]

\* truth value of main's `column`: None and '' are false
Truthy(x) == x # None /\ x.v # <<>>

\* list.index(x): zero-based position of the first element equal to x,
\* ValueError when there is none
list_index_find(list, x) ==
    IF \E i \in 1..Len(list) : list[i] = x
    THEN [ok |-> TRUE, val |-> (CHOOSE i \in 1..Len(list) :
                                   list[i] = x /\ \A j \in 1..(i-1) : list[j] # x) - 1]
    ELSE [ok |-> TRUE, val |-> -1]
list_index(list, x) ==
    IF \E i \in 1..Len(list) : list[i] = x
    THEN [ok |-> TRUE, val |-> (CHOOSE i \in 1..Len(list) :
                                   list[i] = x /\ \A j \in 1..(i-1) : list[j] # x) - 1]
    ELSE [ok |-> FALSE, val |-> 0]

\* list[i] for a Python index i: negative indices count from the end,
\* IndexError outside -len .. len-1
InRange(list, i) == 0 - Len(list) <= i /\ i < Len(list)
Pos(list, i) == IF i >= 0 THEN i + 1 ELSE Len(list) + i + 1

\* ''.join(x) for a str x: the concatenation of its characters
RECURSIVE join_chars(_)
join_chars(x) == IF x = <<>> THEN <<>> ELSE <<Head(x)>> \o join_chars(Tail(x))

\* outrow = row; outrow[colindex] = value   (lines 197-198)
list_setitem_first(row, i, value) ==
    [j \in 1..Len(row) |-> IF j = 1 THEN value ELSE Str(row[j])]
list_setitem(row, i, value) ==
    [j \in 1..Len(row) |-> IF j = Pos(row, i) THEN value ELSE Str(row[j])]

\* the text csv.writer writes for a field: None is written as ''
csv_text(x) == IF x = None THEN <<>> ELSE x.v

\* writer.writerow(record): the record goes after those already written
writerow_front(file, record) == <<record>> \o file
writerow(file, record) == Append(file, record)

\* leaving a `with open(...)` block, normally or by an exception
ReleaseLeak(h) == h
Release(h) == IF h = "open" THEN "closed" ELSE h

\* line 192
ResolveColumn(col, name, hdr) ==
    IF Truthy(col)
    THEN LET n == py_int(col.v) IN [ok |-> n.ok, val |-> n.val - 1]
    ELSE list_index(hdr, csv_text(name))

-----------------------------------------------------------------------------
(* Inputs of the pipeline *)

F_id == <<"i", "d">>
F_trace == <<"t", "r", "a", "c", "e">>
F_Trace == <<"T", "r", "a", "c", "e">>
F_name == <<"n", "a", "m", "e">>
F_2 == <<"2">>

\* header records
Headers ==
    {<<>>, <<F_trace>>, <<F_id, F_trace>>, <<F_Trace, F_trace>>, <<F_2, F_trace>>}

\* values of the COLUMN parameter
Selectors == {F_trace, F_name, F_2}

\* field values of data rows
Cells == {<<>>, <<"1", " ", "2">>, <<"1", " ", "2", ";", "2", " ", "1", " ", "9">>}

\* data rows: of 0, 1 or 2 fields (csv.reader yields [] for a blank line)
Rows == UNION {[1..n -> Cells] : n \in 0..2}

RowLists == UNION {[1..n -> Rows] : n \in 0..MaxRows}

\* the input files: not a layer, not openable, empty, or a header and rows
Sources ==
    {[layer |-> FALSE, readable |-> TRUE, records |-> <<>>],
     [layer |-> TRUE, readable |-> FALSE, records |-> <<>>],
     [layer |-> TRUE, readable |-> TRUE, records |-> <<>>]}
    \cup {[layer |-> TRUE, readable |-> TRUE, records |-> <<h>> \o rows] :
            h \in Headers, rows \in RowLists}

\* the data rows of the input
DataRows == IF source.records = <<>> THEN <<>> ELSE Tail(source.records)

-----------------------------------------------------------------------------
(* processAlgorithm and main, statement by statement *)

Init ==
    /\ pc = "processAlgorithm"
    /\ selector \in Selectors
    /\ source \in Sources
    /\ column = None
    /\ column_name = None
    /\ node_string = <<>>
    /\ result = None
    /\ line_data = "unopened"
    /\ outfile = "unopened"
    /\ acquired = [line_data |-> 0, outfile |-> 0]
    /\ header = <<>>
    /\ colindex = -1
    /\ nread = 0
    /\ outrow = <<>>
    /\ written = <<>>
    /\ error = "none"

\* an exception leaves main: both `with` blocks are left on the way out
Raise(e) ==
    /\ error' = e
    /\ pc' = "failed"
    /\ outfile' = Release(outfile)
    /\ line_data' = Release(line_data)

\* lines 129-174: read the parameters, refuse a missing source, call main
\* with column = None and the COLUMN parameter as column_name
ProcessAlgorithm ==
    /\ pc = "processAlgorithm"
    /\ IF source.layer
       THEN /\ column' = None
            /\ column_name' = Str(selector)
            /\ pc' = "open_infile"
            /\ UNCHANGED <<error, outfile, line_data>>
       ELSE /\ Raise("QgsProcessingException")
            /\ UNCHANGED <<column, column_name>>
    /\ UNCHANGED <<node_string, result, selector, source, acquired, header,
                   colindex, nread, outrow, written>>

\* line 186: with open(infile) as line_data
OpenInfile ==
    /\ pc = "open_infile"
    /\ IF source.readable
       THEN /\ line_data' = "open"
            /\ acquired' = [acquired EXCEPT !.line_data = @ + 1]
            /\ pc' = "open_outfile"
            /\ UNCHANGED <<error, outfile>>
       ELSE /\ Raise("OSError")
            /\ UNCHANGED acquired
    /\ UNCHANGED <<node_string, result, selector, column, column_name, source,
                   header, colindex, nread, outrow, written>>

\* line 189: with open(of, 'w') as outfile; the destination may be unwritable
OpenOutfile ==
    /\ pc = "open_outfile"
    /\ \/ /\ outfile' = "open"
          /\ acquired' = [acquired EXCEPT !.outfile = @ + 1]
          /\ written' = <<>>
          /\ pc' = "read_header"
          /\ UNCHANGED <<error, line_data>>
       \/ /\ Raise("OSError")
          /\ UNCHANGED <<acquired, written>>
    /\ UNCHANGED <<node_string, result, selector, column, column_name, source,
                   header, colindex, nread, outrow>>

\* line 191: header = next(reader)
ReadHeader ==
    /\ pc = "read_header"
    /\ IF source.records # <<>>
       THEN /\ header' = source.records[1]
            /\ pc' = "resolve"
            /\ UNCHANGED <<error, outfile, line_data>>
       ELSE /\ Raise("StopIteration")
            /\ UNCHANGED header
    /\ UNCHANGED <<node_string, result, selector, column, column_name, source,
                   acquired, colindex, nread, outrow, written>>

\* line 192: colindex = int(column) - 1 if column else header.index(column_name)
Resolve ==
    /\ pc = "resolve"
    /\ LET r == ResolveColumn(column, column_name, header)
       IN  IF r.ok
           THEN /\ colindex' = r.val
                /\ pc' = "write_header"
                /\ UNCHANGED <<error, outfile, line_data>>
           ELSE /\ Raise("ValueError")
                /\ UNCHANGED colindex
    /\ UNCHANGED <<node_string, result, selector, column, column_name, source,
                   acquired, header, nread, outrow, written>>

\* line 193: writer.writerow(header); the write may fail
WriteHeader ==
    /\ pc = "write_header"
    /\ \/ /\ written' = writerow(written, header)
          /\ pc' = "next_row"
          /\ UNCHANGED <<error, outfile, line_data>>
       \/ /\ Raise("OSError")
          /\ UNCHANGED written
    /\ UNCHANGED <<node_string, result, selector, column, column_name, source,
                   acquired, header, colindex, nread, outrow>>

\* lines 195-198: the reader yields the next row and the row is transformed
TransformRow ==
    /\ pc = "next_row"
    /\ nread < Len(DataRows)
    /\ LET row == DataRows[nread + 1]
       IN  /\ nread' = nread + 1
           /\ IF InRange(row, colindex)
              THEN /\ node_string' = join_chars(row[Pos(row, colindex)])
                   /\ result' = WKT_linestring_from_nodes(node_string')
                   /\ outrow' = list_setitem(row, colindex, result')
                   /\ pc' = "write_row"
                   /\ UNCHANGED <<error, outfile, line_data>>
              ELSE /\ Raise("IndexError")
                   /\ UNCHANGED <<node_string, result, outrow>>
    /\ UNCHANGED <<selector, column, column_name, source, acquired, header,
                   colindex, written>>

\* line 199: writer.writerow(outrow); the write may fail
WriteRow ==
    /\ pc = "write_row"
    /\ \/ /\ written' = writerow(written, [j \in 1..Len(outrow) |-> csv_text(outrow[j])])
          /\ pc' = "next_row"
          /\ UNCHANGED <<error, outfile, line_data>>
       \/ /\ Raise("OSError")
          /\ UNCHANGED written
    /\ UNCHANGED <<node_string, result, selector, column, column_name, source,
                   acquired, header, colindex, nread, outrow>>

\* the reader is exhausted: the loop ends and the inner `with` is left
EndOfRows ==
    /\ pc = "next_row"
    /\ nread = Len(DataRows)
    /\ outfile' = Release(outfile)
    /\ pc' = "pushInfo"
    /\ UNCHANGED <<node_string, result, selector, column, column_name, source,
                   line_data, acquired, header, colindex, nread, outrow,
                   written, error>>

\* line 200, then the outer `with` is left and processAlgorithm returns
PushInfo ==
    /\ pc = "pushInfo"
    /\ line_data' = Release(line_data)
    /\ pc' = "done"
    /\ UNCHANGED <<node_string, result, selector, column, column_name, source,
                   outfile, acquired, header, colindex, nread, outrow,
                   written, error>>

Next ==
    \/ ProcessAlgorithm
    \/ OpenInfile
    \/ OpenOutfile
    \/ ReadHeader
    \/ Resolve
    \/ WriteHeader
    \/ TransformRow
    \/ WriteRow
    \/ EndOfRows
    \/ PushInfo

Spec == Init /\ [][Next]_vars

-----------------------------------------------------------------------------
(* The Geometry Builder called on its own: one call on an arbitrary         *)
(* NodeString                                                               *)

NodeStrings == UNION {[1..n -> Alphabet] : n \in 0..MaxLen}

\* main's locals before main has run
NotStarted ==
    /\ selector = <<>>
    /\ column = None
    /\ column_name = None
    /\ source = [layer |-> FALSE, readable |-> FALSE, records |-> <<>>]
    /\ line_data = "unopened"
    /\ outfile = "unopened"
    /\ acquired = [line_data |-> 0, outfile |-> 0]
    /\ header = <<>>
    /\ colindex = -1
    /\ nread = 0
    /\ outrow = <<>>
    /\ written = <<>>
    /\ error = "none"

InitBuild ==
    /\ node_string \in NodeStrings
    /\ result = None
    /\ pc = "build_call"
    /\ NotStarted

\* a call of WKT_linestring_from_nodes(node_string)
Build ==
    /\ pc = "build_call"
    /\ result' = WKT_linestring_from_nodes(node_string)
    /\ pc' = "build_return"
    /\ UNCHANGED <<node_string, selector, column, column_name, source,
                   line_data, outfile, acquired, header, colindex, nread,
                   outrow, written, error>>

NextBuild == Build

SpecBuild == InitBuild /\ [][NextBuild]_vars

-----------------------------------------------------------------------------
(* Vocabulary of the properties: segments, tokens and coordinate pairs      *)
(* described by character positions                                         *)

\* the n-th smallest member of a set of positions
Nth(S, n) == CHOOSE i \in S : Cardinality({j \in S : j < i}) = n - 1

\* the positions of character c in s
CutsAt(s, c) == {i \in 1..Len(s) : s[i] = c}

\* the number of pieces s falls into when cut at every c
NumPieces(s, c) == Cardinality(CutsAt(s, c)) + 1

\* the k-th piece of s cut at every c, the separator being w characters wide
Piece(s, c, w, k) ==
    LET from == IF k = 1 THEN 1 ELSE Nth(CutsAt(s, c), k - 1) + w
        to   == IF k = NumPieces(s, c) THEN Len(s) ELSE Nth(CutsAt(s, c), k) - 1
    IN  SubSeq(s, from, to)

\* the k-th semicolon-separated segment of a NodeString
Segment(s, k) == Piece(s, ";", 1, k)

\* where the whitespace-separated tokens of t start and end
TokStarts(t) ==
    {i \in 1..Len(t) : t[i] \notin Whitespace /\ (i = 1 \/ t[i-1] \in Whitespace)}
TokEnds(t) ==
    {i \in 1..Len(t) : t[i] \notin Whitespace /\ (i = Len(t) \/ t[i+1] \in Whitespace)}

NumTokens(t) == Cardinality(TokStarts(t))

\* the n-th whitespace-separated token of t
Token(t, n) == SubSeq(t, Nth(TokStarts(t), n), Nth(TokEnds(t), n))

\* the segments of s that are valid Nodes (at least 2 tokens), by number
ValidSegs(s) == {k \in 1..NumPieces(s, ";") : NumTokens(Segment(s, k)) >= 2}

\* the pair a valid Node stands for: longitude (2nd token), space, latitude
PairOf(t) == Token(t, 2) \o <<" ">> \o Token(t, 1)

\* the WKT kind and the text between the parentheses of a returned string
KindOf(r) == SubSeq(r, 1, Nth(CutsAt(r, "("), 1) - 1)
BodyOf(r) == SubSeq(r, Nth(CutsAt(r, "("), 1) + 1, Len(r) - 1)

\* the coordinate pairs of a returned string
EmittedPairs(r) ==
    IF BodyOf(r) = <<>> THEN <<>>
    ELSE [k \in 1..NumPieces(BodyOf(r), ",") |-> Piece(BodyOf(r), ",", 2, k)]

\* s with its k-th segment replaced by t
RECURSIVE SegmentsFrom(_, _, _, _)
SegmentsFrom(s, k, t, i) ==
    IF i > NumPieces(s, ";") THEN <<>>
    ELSE <<IF i = k THEN t ELSE Segment(s, i)>> \o SegmentsFrom(s, k, t, i + 1)

RECURSIVE Glue(_, _)
Glue(c, pieces) ==
    IF Len(pieces) = 0 THEN <<>>
    ELSE IF Len(pieces) = 1 THEN pieces[1]
    ELSE pieces[1] \o c \o Glue(c, Tail(pieces))

WithSegment(s, k, t) == Glue(<<";">>, SegmentsFrom(s, k, t, 1))

\* the valid segments of s alone, in order
RECURSIVE ValidSegsFrom(_, _)
ValidSegsFrom(s, i) ==
    IF i > NumPieces(s, ";") THEN <<>>
    ELSE (IF NumTokens(Segment(s, i)) >= 2 THEN <<Segment(s, i)>> ELSE <<>>)
         \o ValidSegsFrom(s, i + 1)

Returned == pc = "build_return"

-----------------------------------------------------------------------------
(* Properties of WKT_linestring_from_nodes, checked under SpecBuild         *)

\* C1: every coordinate pair emitted for a kept segment is the segment's
\* second token, one space, then its first token, both as the literal input
\* text; and tokens after the second never change the result: replacing a
\* kept segment by its first two tokens gives the same output.
C1_PairIsSecondThenFirstToken ==
    Returned =>
        LET kept == ValidSegsFrom(node_string, 1)
            out  == EmittedPairs(result.v)
        IN  /\ result.t = "str"
            /\ Len(out) = Len(kept)
            /\ \A i \in 1..Len(kept) : out[i] = PairOf(kept[i])
            /\ \A k \in ValidSegs(node_string) :
                 LET seg == Segment(node_string, k)
                     two == Token(seg, 1) \o <<" ">> \o Token(seg, 2)
                 IN  WKT_linestring_from_nodes(WithSegment(node_string, k, two))
                        = result

\* C1 witness: a kept segment with distinct first and second tokens and
\* further tokens after them has been converted
C1_Witness ==
    /\ Returned
    /\ \E k \in ValidSegs(node_string) :
         /\ NumTokens(Segment(node_string, k)) >= 3
         /\ Token(Segment(node_string, k), 1) # Token(Segment(node_string, k), 2)

\* C2: a NodeString with exactly one valid segment, whatever empty or
\* too-short segments surround it, gives POINT(...) with exactly one pair.
C2_OneValidSegmentGivesPoint ==
    (Returned /\ Cardinality(ValidSegs(node_string)) = 1) =>
        /\ result.t = "str"
        /\ KindOf(result.v) = POINT
        /\ Len(EmittedPairs(result.v)) = 1

\* C3: a NodeString with no valid Node gives None, not a WKT string.
C3_NoValidSegmentGivesNone ==
    (Returned /\ ValidSegs(node_string) = {}) => result = None

\* C4: a NodeString with k >= 2 valid segments gives LINESTRING(...) holding
\* exactly k pairs, one per valid segment in segment order, joined by ", "
\* with no trailing separator; segments with fewer than 2 tokens are dropped
\* without changing the order or content of the other pairs.
C4_LinestringOfValidSegments ==
    LET kept == ValidSegsFrom(node_string, 1)
    IN  (Returned /\ Len(kept) >= 2) =>
            /\ result.t = "str"
            /\ Len(EmittedPairs(result.v)) = Len(kept)
            /\ result.v = LINESTRING \o <<"(">>
                            \o Glue(CommaSpace, [i \in 1..Len(kept) |-> PairOf(kept[i])])
                            \o <<")">>
            /\ WKT_linestring_from_nodes(Glue(<<";">>, kept)) = result

\* C4 witness: two valid segments with a too-short segment among them have
\* been converted
C4_Witness ==
    /\ Returned
    /\ Cardinality(ValidSegs(node_string)) >= 2
    /\ \E k \in 1..NumPieces(node_string, ";") :
         /\ k \notin ValidSegs(node_string)
         /\ \E a, b \in ValidSegs(node_string) : a < k /\ k < b

-----------------------------------------------------------------------------
(* Properties of processAlgorithm and main, checked under Spec              *)

\* the selector reads as an integer
IntegerSelector == py_int(selector).ok

\* the fields of a record
FieldsOf(record) == {record[i] : i \in 1..Len(record)}

\* line 192 has assigned colindex
Resolved == pc \in {"write_header", "next_row", "write_row", "pushInfo", "done"}

\* the record the pipeline is to write for an input data row: the row with
\* the field of the resolved column replaced by its WKT text
ExpectedRow(row) ==
    [j \in 1..Len(row) |->
        IF j = colindex + 1 THEN csv_text(WKT_linestring_from_nodes(row[j]))
        ELSE row[j]]

\* C5: a column selector that parses as an integer n resolves to the
\* zero-based index n - 1 (processAlgorithm passing the selector to main).
C5_IntegerSelectorIsOneBased ==
    IntegerSelector =>
        /\ ~(pc = "failed" /\ error = "ValueError")
        /\ Resolved => colindex = py_int(selector).val - 1

\* C6: a selector that does not parse as an integer resolves to the position
\* of the header field exactly equal to it; when no header field equals it
\* the run aborts at the resolution, before any data row is read,
\* transformed or written.
C6_NameSelectorExactMatchOrAbort ==
    ~IntegerSelector =>
        /\ Resolved =>
             /\ colindex \in 0..(Len(header) - 1)
             /\ header[colindex + 1] = selector
        /\ (source.records # <<>> /\ selector \notin FieldsOf(source.records[1])) =>
             /\ ~Resolved
             /\ pc = "failed" =>
                  error \in {"QgsProcessingException", "OSError", "ValueError"}
             /\ nread = 0
             /\ written = <<>>
             /\ outrow = <<>>

\* C6 witness: a run over a file with data rows has aborted at the column
\* resolution because no header field equals the selector
C6_Witness ==
    /\ pc = "failed"
    /\ error = "ValueError"
    /\ ~IntegerSelector
    /\ header # <<>>
    /\ selector \notin FieldsOf(header)
    /\ Len(DataRows) >= 1

\* C7: when main completes, the output has as many data rows as the input,
\* every output row has as many fields as its input row and equals it in
\* every field except the resolved column, which holds the result of
\* WKT_linestring_from_nodes on the input value.
C7_CompletedRunKeepsShape ==
    pc = "done" =>
        /\ Len(written) = Len(DataRows) + 1
        /\ \A k \in 1..Len(DataRows) :
             /\ Len(written[k + 1]) = Len(DataRows[k])
             /\ \A j \in 1..Len(DataRows[k]) :
                  written[k + 1][j] =
                     IF j = colindex + 1
                     THEN csv_text(WKT_linestring_from_nodes(DataRows[k][j]))
                     ELSE DataRows[k][j]

\* C7 witness: a run over two rows of two fields each, the second column
\* being the resolved one, has completed
C7_Witness ==
    /\ pc = "done"
    /\ Len(DataRows) = 2
    /\ Len(header) = 2
    /\ \A k \in 1..2 : Len(DataRows[k]) = 2
    /\ colindex = 1
    /\ DataRows[1][1] # DataRows[1][2]

\* C8: in every state the records written so far are the unmodified input
\* header followed by the transformed data rows in input order; no data row
\* is written before the header.
C8_WrittenIsHeaderThenRowsInOrder ==
    /\ Len(written) <= nread + 1
    /\ written # <<>> => written[1] = source.records[1]
    /\ \A i \in 2..Len(written) : written[i] = ExpectedRow(DataRows[i - 1])

\* C8 witness: the header and two different rows have been written
C8_Witness ==
    /\ pc = "next_row"
    /\ Len(written) = 3
    /\ DataRows[1] # DataRows[2]
    /\ written[2] # written[3]

\* C9: a data row with no field at the resolved column index is handled by
\* a decided policy; a raw indexing fault never leaves the row loop.
C9_NoRawIndexFault == ~(pc = "failed" /\ error = "IndexError")

\* C10: each handle is acquired at most once, and in every terminal state,
\* completed or aborted, every handle that was acquired has been released.
C10_HandlesReleasedAtExit ==
    /\ acquired.line_data <= 1
    /\ acquired.outfile <= 1
    /\ pc \in {"done", "failed"} =>
         /\ line_data # "open"
         /\ outfile # "open"
         /\ acquired.line_data = 1 => line_data = "closed"
         /\ acquired.outfile = 1 => outfile = "closed"

\* C10 witness: a run that acquired both handles, wrote the header and a
\* row, and then aborted on a row has released both
C10_Witness ==
    /\ pc = "failed"
    /\ error = "IndexError"
    /\ acquired = [line_data |-> 1, outfile |-> 1]
    /\ Len(written) = 2
    /\ line_data = "closed"
    /\ outfile = "closed"

=============================================================================
